---- MODULE Spec2Model ----
(***************************************************************************)
(* Model of the Shorts upload agent: the slot scheduler                   *)
(* (lib/scheduler.ts), the video store (lib/db.ts, JSON-file and SQL       *)
(* backends), discovery (lib/fs-utils.ts) and one agent run                *)
(* (lib/agent.ts runAgent), with the clock, the content directory and the  *)
(* external collaborators as the environment.                              *)
(*                                                                         *)
(* Time is counted in ticks, TicksPerMinute ticks to the minute, and a     *)
(* calendar day has DayMinutes minutes (a scaled-down day: the scheduler   *)
(* only uses the day for the per-day count and the window positions).      *)
(* Not modelled: updatedAt and fileSize (no operation reads them),          *)
(* createdAt (ids stand for the creation order), the contents of the       *)
(* metadata and analytics payloads, daylight saving.                       *)
(*                                                                         *)
(* Spec is one process with sequential runs. ConcurrentSpec has two calls  *)
(* of runAgent in flight, CopiesSpec several files of one content,         *)
(* ReconfigSpec restarts with a changed configuration between runs, and    *)
(* StockedSpec starts from a store of more records than listVideos(200)    *)
(* returns. RepeatedSpec repeats runs for ever over a fixed directory,     *)
(* with weak fairness on the run's steps and on the clock.                 *)
(***************************************************************************)
EXTENDS Integers, Sequences, FiniteSets, TLC

\* ---------------------------------------------------------------- bounds
MaxFiles == 2
MaxHashes == 2
MaxCopies == 3
TicksPerMinute == 1
DayMinutes == 3
MaxClock == 4
MaxRetry == 2
ZoneOffsetMinutes == 1

\* ------------------------------------------------------ program constants
HorizonDays == 14
SchedulingListLimit == 200
AnalyticsListLimit == 100

\* null of a nullable number-valued field (Date | null, string | null ids)
NULL == -1
\* a non-null metadata / analytics payload
Payload == 1
\* null of the error column
NoError == "null"

ErrFileNotFound == "Video file not found"
ErrMetadataMissing == "Metadata missing for video"
\* the message of an error thrown by applyWatermark, generateThumbnail or
\* uploadShort (the messages are not told apart)
ErrCollaborator == "collaborator error"

Filenames == 1..MaxFiles
Hashes == 1..MaxHashes
DayTicks == DayMinutes * TicksPerMinute

VideoStatus == {"new", "scheduled", "processing", "uploaded", "failed"}


VARIABLES
    backend,          \* hasDatabaseUrl: "file" or "sql"
    config,           \* getConfig(): timezone, uploadWindows, maxDailyUploads
    now,              \* the clock (new Date()), in ticks
    files,            \* content directory: filename -> content hash, NULL = absent
    videos,           \* the store: records in insertion order
    pc,               \* position of the run
    readdir,          \* runAgent: what fs.readdir gave listVideoFiles ("none" between runs)
    availableVideos,  \* runAgent: listVideoFiles() result
    schedulingState,  \* runAgent: listVideos(200) snapshot plus in-run pushes
    di,               \* runAgent: index of the discovery loop
    queue,            \* runAgent: listReadyToUpload() snapshot
    qi,               \* runAgent: index of the queue loop
    result,           \* runAgent: AgentRunResult
    fault,            \* what made runAgent raise ("none" if nothing)
    storeAtStart,     \* the store as it was when the run started
    publishCount,     \* filename -> number of video ids uploadShort returned
    lastOp,           \* the last store write executed
    failCount,        \* filename -> number of times its processing failed
    unchangedSinceRun, \* the last run returned and no file was written or removed since
    other             \* the locals of a second runAgent call in flight, not executing

vars == <<backend, config, now, files, videos, pc, readdir, availableVideos,
          schedulingState, di, queue, qi, result, fault, storeAtStart,
          publishCount, lastOp, failCount, unchangedSinceRun, other>>

runVars == <<pc, readdir, availableVideos, schedulingState, di, queue, qi, result,
             fault, storeAtStart>>

\* ---------------------------------------------------------------- helpers
Abs(x) == IF x < 0 THEN 0 - x ELSE x

\* a ?? b
Coalesce(a, b) == IF a # NULL THEN a ELSE b

CoalesceError(a, b) == IF a # NoError THEN a ELSE b

RECURSIVE SumOver(_, _)
SumOver(f, S) ==
    IF S = {} THEN 0
    ELSE LET x == CHOOSE y \in S : TRUE IN f[x] + SumOver(f, S \ {x})

\* Array.prototype.findIndex on the filename; 0 when there is none
IndexOfFilename(vs, filename) ==
    IF \E i \in 1..Len(vs) : vs[i].filename = filename
    THEN CHOOSE i \in 1..Len(vs) :
            /\ vs[i].filename = filename
            /\ \A j \in 1..(i - 1) : vs[j].filename # filename
    ELSE 0

IndexOfId(vs, id) ==
    IF \E i \in 1..Len(vs) : vs[i].id = id
    THEN CHOOSE i \in 1..Len(vs) :
            /\ vs[i].id = id
            /\ \A j \in 1..(i - 1) : vs[j].id # id
    ELSE 0

\* the sort keys the store uses: created_at DESC (listVideos) and
\* scheduled_at ASC NULLS FIRST (listReadyToUpload, SQL). createdAt is not
\* stored in the model: ids are allocated in creation order, so created_at
\* DESC is id DESC (records created in the same millisecond aside).
SortKey(v, order) ==
    IF order = "createdAtDesc" THEN 0 - v.id ELSE v.scheduledAt

\* stable sort of a sequence of records by SortKey, ascending: a record
\* moves to position 1 + the number of records that sort before it
SortByKey(vs, order) ==
    LET n == Len(vs)
        key == SubSeq([i \in 1..n |-> SortKey(vs[i], order)], 1, n)
        rank == SubSeq([i \in 1..n |->
                          1 + Cardinality({j \in 1..n :
                                  \/ key[j] < key[i]
                                  \/ key[j] = key[i] /\ j < i})], 1, n)
    IN SubSeq([r \in 1..n |-> vs[CHOOSE i \in 1..n : rank[i] = r]], 1, n)

Take(vs, n) == SubSeq(vs, 1, IF Len(vs) < n THEN Len(vs) ELSE n)

\* ------------------------------------------------------------- the store
\* getVideoByFilename: the record (as a sequence of one) or <<>> for null
getVideoByFilename(vs, filename) ==
    LET i == IndexOfFilename(vs, filename)
    IN IF i = 0 THEN <<>> ELSE <<vs[i]>>

\* getVideoByHash: the results the call can give. The file backend returns the
\* first record of the array with that hash; the SQL backend returns rows[0]
\* of a SELECT without ORDER BY, which may be any row with that hash.
getVideoByHash(bk, vs, hash) ==
    LET hits == {i \in 1..Len(vs) : vs[i].fileHash = hash}
    IN IF hits = {} THEN {<<>>}
       ELSE IF bk = "file"
            THEN {<<vs[CHOOSE i \in hits : \A j \in hits : i <= j]>>}
            ELSE {<<vs[i]>> : i \in hits}

\* the record upsertVideoRecord inserts for a new filename
NewVideoRecord(vs, record, t) ==
    [id             |-> Len(vs) + 1,
     filename       |-> record.filename,
     status         |-> record.status,
     fileHash       |-> record.fileHash,
     scheduledAt    |-> record.scheduledAt,
     uploadedAt     |-> record.uploadedAt,
     youtubeVideoId |-> record.youtubeVideoId,
     metadata       |-> record.metadata,
     analytics      |-> NULL,
     error          |-> record.error,
     retryCount     |-> 0]

\* variant: the stored entry is replaced by a fresh one, retryCount included
MergeFileRecordResetsRetry(existing, record) ==
    [existing EXCEPT
        !.status         = record.status,
        !.scheduledAt    = Coalesce(record.scheduledAt, @),
        !.metadata       = Coalesce(record.metadata, @),
        !.error          = CoalesceError(record.error, @),
        !.youtubeVideoId = Coalesce(record.youtubeVideoId, @),
        !.uploadedAt     = Coalesce(record.uploadedAt, @),
        !.fileHash       = Coalesce(record.fileHash, @),
        !.retryCount     = 0]

\* the file backend's merge of an incoming record into the stored one
MergeFileRecord(existing, record) ==
    [existing EXCEPT
        !.status         = record.status,
        !.scheduledAt    = Coalesce(record.scheduledAt, @),
        !.metadata       = Coalesce(record.metadata, @),
        !.error          = CoalesceError(record.error, @),
        !.youtubeVideoId = Coalesce(record.youtubeVideoId, @),
        !.uploadedAt     = Coalesce(record.uploadedAt, @),
        !.fileHash       = Coalesce(record.fileHash, @)]

\* the SQL backend's ON CONFLICT (filename) DO UPDATE
MergeSqlRecord(existing, record) ==
    [existing EXCEPT
        !.status         = record.status,
        !.scheduledAt    = record.scheduledAt,
        !.metadata       = record.metadata,
        !.error          = record.error,
        !.youtubeVideoId = Coalesce(record.youtubeVideoId, @),
        !.uploadedAt     = Coalesce(record.uploadedAt, @),
        !.fileHash       = Coalesce(record.fileHash, @)]

\* variant: every upsert inserts a record
upsertVideoRecordAlwaysInserts(bk, vs, record, t) ==
    Append(vs, NewVideoRecord(vs, record, t))

upsertVideoRecord(bk, vs, record, t) ==
    LET index == IndexOfFilename(vs, record.filename)
    IN IF index > 0
       THEN [vs EXCEPT ![index] =
                IF bk = "file" THEN MergeFileRecord(vs[index], record)
                ELSE MergeSqlRecord(vs[index], record)]
       ELSE Append(vs, NewVideoRecord(vs, record, t))

markVideoAsProcessing(vs, filename) ==
    LET index == IndexOfFilename(vs, filename)
    IN IF index > 0
       THEN [vs EXCEPT ![index].status = "processing"]
       ELSE vs

\* variant: a success starts the retry count again and keeps the last error
markVideoAsUploadedResetsRetry(vs, filename, youtubeVideoId, metadata, t) ==
    LET index == IndexOfFilename(vs, filename)
    IN IF index > 0
       THEN [vs EXCEPT ![index] =
                [@ EXCEPT !.status = "uploaded",
                          !.youtubeVideoId = youtubeVideoId,
                          !.uploadedAt = t,
                          !.metadata = metadata,
                          !.retryCount = 0]]
       ELSE vs

\* variant: a success keeps the last error
markVideoAsUploadedKeepsError(vs, filename, youtubeVideoId, metadata, t) ==
    LET index == IndexOfFilename(vs, filename)
    IN IF index > 0
       THEN [vs EXCEPT ![index] =
                [@ EXCEPT !.status = "uploaded",
                          !.youtubeVideoId = youtubeVideoId,
                          !.uploadedAt = t,
                          !.metadata = metadata]]
       ELSE vs

markVideoAsUploaded(vs, filename, youtubeVideoId, metadata, t) ==
    LET index == IndexOfFilename(vs, filename)
    IN IF index > 0
       THEN [vs EXCEPT ![index] =
                [@ EXCEPT !.status = "uploaded",
                          !.youtubeVideoId = youtubeVideoId,
                          !.uploadedAt = t,
                          !.metadata = metadata,
                          !.error = NoError]]
       ELSE vs

\* variant: the error and the retry are recorded, the status is left alone
recordVideoErrorKeepsStatus(vs, filename, error) ==
    LET index == IndexOfFilename(vs, filename)
    IN IF index > 0
       THEN [vs EXCEPT ![index] =
                [@ EXCEPT !.error = error,
                          !.retryCount = @ + 1]]
       ELSE vs

recordVideoError(vs, filename, error) ==
    LET index == IndexOfFilename(vs, filename)
    IN IF index > 0
       THEN [vs EXCEPT ![index] =
                [@ EXCEPT !.status = "failed",
                          !.error = error,
                          !.retryCount = @ + 1]]
       ELSE vs

storeAnalytics(vs, videoId, analytics) ==
    LET index == IndexOfId(vs, videoId)
    IN IF index > 0
       THEN [vs EXCEPT ![index].analytics = analytics]
       ELSE vs

\* listVideos(limit): newest first, at most limit records
listVideos(vs, limit) == Take(SortByKey(vs, "createdAtDesc"), limit)

\* variant: uploaded records are ready too
IsReadyAlsoUploaded(v, t) ==
    /\ v.status \in {"scheduled", "failed", "uploaded"}
    /\ (v.scheduledAt = NULL \/ v.scheduledAt <= t)

\* variant: the slot time is not looked at
IsReadyAnyTime(v, t) ==
    v.status \in {"scheduled", "failed"}

\* variant: only failed items are retried, a scheduled item is never taken
IsReadyFailedOnly(v, t) ==
    /\ v.status = "failed"
    /\ (v.scheduledAt = NULL \/ v.scheduledAt <= t)

IsReady(v, t) ==
    /\ v.status \in {"scheduled", "failed"}
    /\ (v.scheduledAt = NULL \/ v.scheduledAt <= t)

\* listReadyToUpload(now): the file backend filters in array order, the SQL
\* backend orders by scheduled_at ASC NULLS FIRST
listReadyToUpload(bk, vs, t) ==
    LET Ready(v) == IsReady(v, t)
        ready == SelectSeq(vs, Ready)
    IN IF bk = "file" THEN ready ELSE SortByKey(ready, "scheduledAtAsc")

\* ---------------------------------------------------------- the scheduler
\* the zone's offset from UTC, in ticks
ZoneTicks(cfg) == cfg.timezone * TicksPerMinute

\* setZone(timeZone).toFormat('yyyy-LL-dd'): the calendar day of an instant
DayKey(t, cfg) == (t + ZoneTicks(cfg)) \div DayTicks

\* nowInZone.plus({days}).startOf('day').set({hour, minute, second: 0}):
\* the instant of minute-of-day slot on the day dayOffset days after t's day
Candidate(t, cfg, dayOffset, slot) ==
    (DayKey(t, cfg) + dayOffset) * DayTicks + slot * TicksPerMinute - ZoneTicks(cfg)

FutureVideos(vs, t) ==
    LET IsFuture(v) == v.scheduledAt # NULL /\ v.scheduledAt > t
    IN SelectSeq(vs, IsFuture)

\* dayCounts.get(dayKey) ?? 0
UploadsForDay(futureVideos, dayKey, cfg) ==
    Cardinality({i \in 1..Len(futureVideos) :
                    DayKey(futureVideos[i].scheduledAt, cfg) = dayKey})

\* variant: only a slot strictly later than the candidate counts as a collision
SlotTakenLaterOnly(futureVideos, candidate) ==
    \E i \in 1..Len(futureVideos) :
        /\ futureVideos[i].scheduledAt - candidate > 0
        /\ futureVideos[i].scheduledAt - candidate < TicksPerMinute

\* Math.abs(scheduled.diff(candidate, 'minutes').minutes) < 1
SlotTaken(futureVideos, candidate) ==
    \E i \in 1..Len(futureVideos) :
        Abs(futureVideos[i].scheduledAt - candidate) < TicksPerMinute

\* variant: no lead time is asked of a candidate of today
TooSoonNever(t, dayOffset, candidate) == FALSE

\* dayOffset === 0 && candidate <= nowInZone.plus({ minutes: 1 })
TooSoon(t, dayOffset, candidate) ==
    dayOffset = 0 /\ candidate <= t + TicksPerMinute

\* variant: the day is skipped only when it holds more than maxDailyUploads
DayFullWhenOver(futureVideos, dayKey, cfg) ==
    UploadsForDay(futureVideos, dayKey, cfg) > cfg.maxDailyUploads

\* the day is skipped when it already holds maxDailyUploads future items
DayFull(futureVideos, dayKey, cfg) ==
    UploadsForDay(futureVideos, dayKey, cfg) >= cfg.maxDailyUploads

\* variant: the scan keeps going and returns the last candidate that passes
computeNextScheduleLastFit(vs, t, cfg) ==
    LET slots == cfg.uploadWindows
        n == Len(slots)
        futureVideos == FutureVideos(vs, t)
        DayOf(k) == k \div n
        CandidateOf(k) == Candidate(t, cfg, DayOf(k), slots[(k % n) + 1])
        Passes(k) ==
            /\ ~DayFull(futureVideos, DayKey(t, cfg) + DayOf(k), cfg)
            /\ ~TooSoon(t, DayOf(k), CandidateOf(k))
            /\ ~SlotTaken(futureVideos, CandidateOf(k))
        steps == IF n = 0 THEN {} ELSE 0..((HorizonDays + 1) * n - 1)
    IN IF \E k \in steps : Passes(k)
       THEN CandidateOf(CHOOSE k \in steps :
                            Passes(k) /\ \A j \in steps : j > k => ~Passes(j))
       ELSE NULL

\* variant: one day more than the horizon is scanned
computeNextScheduleOneDayMore(vs, t, cfg) ==
    LET slots == cfg.uploadWindows
        n == Len(slots)
        futureVideos == FutureVideos(vs, t)
        DayOf(k) == k \div n
        CandidateOf(k) == Candidate(t, cfg, DayOf(k), slots[(k % n) + 1])
        Passes(k) ==
            /\ ~DayFull(futureVideos, DayKey(t, cfg) + DayOf(k), cfg)
            /\ ~TooSoon(t, DayOf(k), CandidateOf(k))
            /\ ~SlotTaken(futureVideos, CandidateOf(k))
        steps == IF n = 0 THEN {} ELSE 0..((HorizonDays + 2) * n - 1)
    IN IF \E k \in steps : Passes(k)
       THEN CandidateOf(CHOOSE k \in steps :
                            Passes(k) /\ \A j \in 0..(k - 1) : ~Passes(j))
       ELSE NULL

\* variant: an empty window list falls back to the default windows
computeNextScheduleDefaultWindows(vs, t, cfg) ==
    LET slots == IF cfg.uploadWindows = <<>> THEN <<0, 1, 2>> ELSE cfg.uploadWindows
        n == Len(slots)
        futureVideos == FutureVideos(vs, t)
        DayOf(k) == k \div n
        CandidateOf(k) == Candidate(t, cfg, DayOf(k), slots[(k % n) + 1])
        Passes(k) ==
            /\ ~DayFull(futureVideos, DayKey(t, cfg) + DayOf(k), cfg)
            /\ ~TooSoon(t, DayOf(k), CandidateOf(k))
            /\ ~SlotTaken(futureVideos, CandidateOf(k))
        steps == IF n = 0 THEN {} ELSE 0..((HorizonDays + 1) * n - 1)
    IN IF \E k \in steps : Passes(k)
       THEN CandidateOf(CHOOSE k \in steps :
                            Passes(k) /\ \A j \in 0..(k - 1) : ~Passes(j))
       ELSE NULL

\* computeNextSchedule(videos, now): the first candidate, in day-then-window
\* order, that passes the cap, lead-time and collision checks; NULL if none
computeNextSchedule(vs, t, cfg) ==
    LET slots == cfg.uploadWindows
        n == Len(slots)
        futureVideos == FutureVideos(vs, t)
        DayOf(k) == k \div n
        CandidateOf(k) == Candidate(t, cfg, DayOf(k), slots[(k % n) + 1])
        Passes(k) ==
            /\ ~DayFull(futureVideos, DayKey(t, cfg) + DayOf(k), cfg)
            /\ ~TooSoon(t, DayOf(k), CandidateOf(k))
            /\ ~SlotTaken(futureVideos, CandidateOf(k))
        steps == IF n = 0 THEN {} ELSE 0..((HorizonDays + 1) * n - 1)
    IN IF \E k \in steps : Passes(k)
       THEN CandidateOf(CHOOSE k \in steps :
                            Passes(k) /\ \A j \in 0..(k - 1) : ~Passes(j))
       ELSE NULL

\* ------------------------------------------------------------ environment
EmptyResult == [scanned |-> 0, scheduled |-> 0, uploaded |-> 0, failed |-> 0,
                errors |-> <<>>]

\* the locals of a runAgent call that is not running
IdleRun ==
    [pc |-> "idle", readdir |-> "none", availableVideos |-> <<>>,
     schedulingState |-> <<>>, di |-> 0, queue |-> <<>>, qi |-> 0,
     result |-> EmptyResult, fault |-> "none", storeAtStart |-> <<>>]

\* the configurations a process starts with: TIMEZONE, UPLOAD_WINDOWS (as
\* minutes of the day, in the configured order) and MAX_DAILY_UPLOADS
Configs ==
    {[timezone |-> ZoneOffsetMinutes, uploadWindows |-> <<>>, maxDailyUploads |-> 1],
     [timezone |-> ZoneOffsetMinutes, uploadWindows |-> <<0, 1, 2>>, maxDailyUploads |-> 1],
     [timezone |-> ZoneOffsetMinutes, uploadWindows |-> <<1, 0, 1>>, maxDailyUploads |-> 2]}

Init ==
    /\ backend \in {"file", "sql"}
    /\ config \in Configs
    /\ now = 0
    /\ files = [f \in Filenames |-> NULL]
    /\ videos = <<>>
    /\ pc = "idle"
    /\ readdir = "none"
    /\ availableVideos = <<>>
    /\ schedulingState = <<>>
    /\ di = 0
    /\ queue = <<>>
    /\ qi = 0
    /\ result = EmptyResult
    /\ fault = "none"
    /\ storeAtStart = <<>>
    /\ publishCount = [f \in Filenames |-> 0]
    /\ lastOp = "none"
    /\ failCount = [f \in Filenames |-> 0]
    /\ unchangedSinceRun = FALSE
    /\ other = IdleRun

\* the clock advances, between runs and during a run
Tick ==
    /\ now < MaxClock
    /\ now' = now + 1
    /\ UNCHANGED <<backend, config, files, videos, runVars,
                   publishCount, lastOp, other, failCount, unchangedSinceRun>>

\* a file is added to the content directory, or its content is replaced
PutFile(f, h) ==
    /\ pc = "idle"
    /\ files[f] # h
    /\ files' = [files EXCEPT ![f] = h]
    /\ unchangedSinceRun' = FALSE
    /\ UNCHANGED <<backend, config, now, videos, runVars, publishCount, lastOp,
                   other, failCount>>

\* a file is removed from the content directory
RemoveFile(f) ==
    /\ pc = "idle"
    /\ files[f] # NULL
    /\ files' = [files EXCEPT ![f] = NULL]
    /\ unchangedSinceRun' = FALSE
    /\ UNCHANGED <<backend, config, now, videos, runVars, publishCount, lastOp,
                   other, failCount>>

\* ----------------------------------------------------------- listVideoFiles
\* fs.readdir(contentDir) can give: the entries; ENOENT when the directory does
\* not exist (it then holds no file) and fs.mkdir creates it; another error
\* (EACCES, EIO, ..., or ENOENT with a directory that fs.mkdir cannot create)
ReaddirResults(fs) ==
    {"entries", "error"} \cup
    (IF \A f \in DOMAIN fs : fs[f] = NULL THEN {"ENOENT"} ELSE {})

\* variant: listVideoFiles throws on a missing directory too
ListVideoFilesThrowsOnMissing(r) == r \in {"error", "ENOENT"}

\* variant: listVideoFiles swallows every readdir error and returns []
ListVideoFilesSwallows(r) == FALSE

\* what listVideoFiles does with the readdir result: ENOENT creates the
\* directory and lists nothing, any other error is thrown
ListVideoFilesThrowsOn(r) == r = "error"

\* the descriptors of the files present, in every order readdir can give
Listings(fs) ==
    LET present == {f \in DOMAIN fs : fs[f] # NULL}
        n == Cardinality(present)
    IN {order \in [1..n -> present] :
            \A i, j \in 1..n : i # j => order[i] # order[j]}

Descriptor(fs, f) == [filename |-> f, hash |-> fs[f]]

\* ----------------------------------------------------------------- runAgent
\* runAgent is called and listVideoFiles() returns: ensureSchema(), the empty
\* result, scanned, and the listVideos(200) snapshot
RunStart ==
    /\ pc = "idle"
    /\ \E r \in ReaddirResults(files) :
          /\ ~ListVideoFilesThrowsOn(r)
          /\ readdir' = r
    /\ \E order \in Listings(files) :
          /\ availableVideos' = [i \in DOMAIN order |-> Descriptor(files, order[i])]
          /\ result' = [EmptyResult EXCEPT !.scanned = Len(order)]
    /\ schedulingState' = listVideos(videos, SchedulingListLimit)
    /\ storeAtStart' = videos
    /\ di' = 1
    /\ pc' = "discover"
    /\ UNCHANGED <<backend, config, now, files, videos, queue, qi, fault,
                   publishCount, lastOp, other, failCount, unchangedSinceRun>>

\* runAgent is called and listVideoFiles() throws: runAgent raises
RunStartThrows ==
    /\ pc = "idle"
    /\ \E r \in ReaddirResults(files) :
          /\ ListVideoFilesThrowsOn(r)
          /\ readdir' = r
    /\ storeAtStart' = videos
    /\ pc' = "raised"
    /\ fault' = "listVideoFiles"
    /\ UNCHANGED <<backend, config, now, files, videos, availableVideos,
                   schedulingState, di, queue, qi, result, publishCount, lastOp,
                   other, failCount, unchangedSinceRun>>

\* alreadyUploadedByHash && alreadyUploadedByHash.youtubeVideoId
SkippedByHash(byHash) ==
    byHash # <<>> /\ byHash[1].youtubeVideoId # NULL
\* variant: entries in status new are skipped by filename too
SkippedByFilenameAlsoNew(existing) ==
    existing # <<>> /\ existing[1].status \in {"uploaded", "scheduled", "new"}

\* variant: only uploaded entries are skipped by filename
SkippedByFilenameUploadedOnly(existing) ==
    existing # <<>> /\ existing[1].status \in {"uploaded"}

\* variant: only scheduled entries are skipped by filename
SkippedByFilenameScheduledOnly(existing) ==
    existing # <<>> /\ existing[1].status \in {"scheduled"}

\* existing && existing.status === 'uploaded', or === 'scheduled'
SkippedByFilename(existing) ==
    existing # <<>> /\ existing[1].status \in {"uploaded", "scheduled"}

\* whether the discovery loop skips the file, given the by-hash lookup result
Skipped(vs, video, byHash) ==
    \/ SkippedByHash(byHash)
    \/ SkippedByFilename(getVideoByFilename(vs, video.filename))

\* the record runAgent upserts for a discovered file
DiscoveredRecord(video, nextSchedule) ==
    [filename       |-> video.filename,
     status         |-> IF nextSchedule # NULL THEN "scheduled" ELSE "new",
     scheduledAt    |-> nextSchedule,
     metadata       |-> Payload,
     error          |-> NoError,
     youtubeVideoId |-> NULL,
     uploadedAt     |-> NULL,
     fileHash       |-> video.hash]

\* the entry pushed on schedulingState for a discovered file
TentativeRecord(video, nextSchedule) ==
    [id             |-> NULL,
     filename       |-> video.filename,
     status         |-> IF nextSchedule # NULL THEN "scheduled" ELSE "new",
     fileHash       |-> video.hash,
     scheduledAt    |-> nextSchedule,
     uploadedAt     |-> NULL,
     youtubeVideoId |-> NULL,
     metadata       |-> Payload,
     analytics      |-> NULL,
     error          |-> NoError,
     retryCount     |-> 0]

\* one pass of the discovery loop that skips the file
DiscoverSkip ==
    /\ pc = "discover"
    /\ di <= Len(availableVideos)
    /\ \E byHash \in getVideoByHash(backend, videos, availableVideos[di].hash) :
          Skipped(videos, availableVideos[di], byHash)
    /\ di' = di + 1
    /\ UNCHANGED <<backend, readdir, config, now, files, videos, pc,
                   availableVideos, schedulingState, queue, qi, result, fault,
                   storeAtStart, publishCount, lastOp,
                   other, failCount, unchangedSinceRun>>

\* one pass of the discovery loop in which buildVideoMetadata or
\* persistMetadataSnapshot throws: nothing catches it, runAgent raises
DiscoverEnrichmentThrows ==
    /\ pc = "discover"
    /\ di <= Len(availableVideos)
    /\ \E byHash \in getVideoByHash(backend, videos, availableVideos[di].hash) :
          ~Skipped(videos, availableVideos[di], byHash)
    /\ pc' = "raised"
    /\ fault' = "enrichment"
    /\ UNCHANGED <<backend, readdir, config, now, files, videos,
                   availableVideos, schedulingState, di, queue, qi, result,
                   storeAtStart, publishCount, lastOp,
                   other, failCount, unchangedSinceRun>>

\* one pass of the discovery loop that asks for a slot and upserts the record
DiscoverSchedule ==
    /\ pc = "discover"
    /\ di <= Len(availableVideos)
    /\ \E byHash \in getVideoByHash(backend, videos, availableVideos[di].hash) :
          ~Skipped(videos, availableVideos[di], byHash)
    /\ LET video == availableVideos[di]
           nextSchedule == computeNextSchedule(schedulingState, now, config)
       IN /\ videos' = upsertVideoRecord(backend, videos,
                           DiscoveredRecord(video, nextSchedule), now)
          /\ schedulingState' =
                Append(schedulingState, TentativeRecord(video, nextSchedule))
    /\ result' = [result EXCEPT !.scheduled = @ + 1]
    /\ lastOp' = "upsertVideoRecord"
    /\ di' = di + 1
    /\ UNCHANGED <<backend, readdir, config, now, files, pc, availableVideos,
                   queue, qi, fault, storeAtStart, publishCount,
                   other, failCount, unchangedSinceRun>>

\* the discovery loop is over: queue = listReadyToUpload(new Date())
SelectQueue ==
    /\ pc = "discover"
    /\ di > Len(availableVideos)
    /\ queue' = listReadyToUpload(backend, videos, now)
    /\ qi' = 1
    /\ pc' = "process"
    /\ UNCHANGED <<backend, readdir, config, now, files, videos,
                   availableVideos, schedulingState, di, result, fault,
                   storeAtStart, publishCount, lastOp,
                   other, failCount, unchangedSinceRun>>

\* the queue loop takes the next record: markVideoAsProcessing
MarkProcessing ==
    /\ pc = "process"
    /\ qi <= Len(queue)
    /\ videos' = markVideoAsProcessing(videos, queue[qi].filename)
    /\ lastOp' = "markVideoAsProcessing"
    /\ pc' = "upload"
    /\ UNCHANGED <<backend, readdir, config, now, files, availableVideos,
                   schedulingState, di, queue, qi, result, fault, storeAtStart,
                   publishCount, other, failCount, unchangedSinceRun>>

\* availableVideos.find(...) ?? resolveVideoDescriptor(filename): whether a
\* descriptor is found (from the listing, else by fs.stat now)
HasDescriptor(av, fs, filename) ==
    \/ \E i \in 1..Len(av) : av[i].filename = filename
    \/ fs[filename] # NULL

\* toVideoMetadata(record.metadata): null for null, else the metadata object
toVideoMetadata(metadata) == IF metadata = NULL THEN NULL ELSE Payload

\* variant: uploadShort returns response.data.id unchecked
UploadShortNeverThrows(responseId) == FALSE

\* uploadShort: 'YouTube API did not return a video ID' when the insert
\* response carries no id
UploadShortThrows(responseId) == responseId = NULL

\* the id YouTube gives the next video it accepts (ids are never reused)
NextVideoId == 1 + SumOver(publishCount, DOMAIN publishCount)

\* variant: the catch block rethrows after recording the error
CatchRethrows == "raised"

\* where the queue loop goes after its catch block: on to the next record
CatchContinuation == "process"

StoredRetryCount(vs, filename) ==
    LET index == IndexOfFilename(vs, filename)
    IN IF index > 0 THEN vs[index].retryCount ELSE 0

\* variant: the catch block counts the failure without keeping its message
CatchItemErrorDropsMessage(record, errorMessage) ==
    /\ StoredRetryCount(videos, record.filename) < MaxRetry
    /\ videos' = recordVideoError(videos, record.filename, errorMessage)
    /\ failCount' = [failCount EXCEPT ![record.filename] = @ + 1]
    /\ lastOp' = "recordVideoError"
    /\ result' = [result EXCEPT !.failed = @ + 1]
    /\ qi' = qi + 1
    /\ pc' = CatchContinuation
    /\ fault' = IF CatchContinuation = "raised" THEN "item" ELSE fault

\* the catch block of the queue loop
CatchItemError(record, errorMessage) ==
    /\ StoredRetryCount(videos, record.filename) < MaxRetry
    /\ videos' = recordVideoError(videos, record.filename, errorMessage)
    /\ failCount' = [failCount EXCEPT ![record.filename] = @ + 1]
    /\ lastOp' = "recordVideoError"
    /\ result' = [result EXCEPT
                    !.failed = @ + 1,
                    !.errors = Append(@, <<record.filename, errorMessage>>)]
    /\ qi' = qi + 1
    /\ pc' = CatchContinuation
    /\ fault' = IF CatchContinuation = "raised" THEN "item" ELSE fault

\* the record's file is gone: 'Video file not found'
ProcessFileNotFound ==
    /\ pc = "upload"
    /\ ~HasDescriptor(availableVideos, files, queue[qi].filename)
    /\ CatchItemError(queue[qi], ErrFileNotFound)
    /\ UNCHANGED <<backend, readdir, config, now, files, availableVideos,
                   schedulingState, di, queue, storeAtStart, publishCount,
                   other, unchangedSinceRun>>

\* applyWatermark, generateThumbnail or the upload call throws (or the record
\* has no metadata)
ProcessCollaboratorThrows ==
    /\ pc = "upload"
    /\ HasDescriptor(availableVideos, files, queue[qi].filename)
    /\ CatchItemError(queue[qi],
            IF toVideoMetadata(queue[qi].metadata) = NULL
            THEN ErrMetadataMissing ELSE ErrCollaborator)
    /\ UNCHANGED <<backend, readdir, config, now, files, availableVideos,
                   schedulingState, di, queue, storeAtStart, publishCount,
                   other, unchangedSinceRun>>

\* the upload call answers, with or without a video id
ProcessUpload(responseId) ==
    /\ pc = "upload"
    /\ HasDescriptor(availableVideos, files, queue[qi].filename)
    /\ toVideoMetadata(queue[qi].metadata) # NULL
    /\ IF UploadShortThrows(responseId)
       THEN /\ CatchItemError(queue[qi], ErrCollaborator)
            /\ UNCHANGED publishCount
       ELSE /\ videos' = markVideoAsUploaded(videos, queue[qi].filename,
                            responseId, toVideoMetadata(queue[qi].metadata), now)
            /\ lastOp' = "markVideoAsUploaded"
            /\ publishCount' = [publishCount EXCEPT ![queue[qi].filename] = @ + 1]
            /\ result' = [result EXCEPT !.uploaded = @ + 1]
            /\ qi' = qi + 1
            /\ pc' = "process"
            /\ UNCHANGED <<fault, failCount>>
    /\ UNCHANGED <<backend, readdir, config, now, files, availableVideos,
                   schedulingState, di, queue, storeAtStart,
                   other, unchangedSinceRun>>

RECURSIVE StoreAnalyticsFor(_, _)
StoreAnalyticsFor(vs, ids) ==
    IF ids = {} THEN vs
    ELSE LET id == CHOOSE x \in ids : TRUE
         IN StoreAnalyticsFor(storeAnalytics(vs, id, Payload), ids \ {id})

\* refreshAnalyticsForVideos(listVideos(100)): the records with a video id
EligibleForAnalytics(vs) ==
    LET recent == listVideos(vs, AnalyticsListLimit)
    IN {recent[i].id : i \in {j \in 1..Len(recent) : recent[j].youtubeVideoId # NULL}}

\* the queue loop is over: analytics are refreshed for the records whose
\* fetchVideoAnalytics call gives data, and runAgent returns its result
RefreshAnalytics ==
    /\ pc = "process"
    /\ qi > Len(queue)
    /\ \E fetched \in SUBSET EligibleForAnalytics(videos) :
          /\ videos' = StoreAnalyticsFor(videos, fetched)
          /\ lastOp' = IF fetched = {} THEN lastOp ELSE "storeAnalytics"
    /\ pc' = "done"
    /\ UNCHANGED <<backend, readdir, config, now, files, availableVideos,
                   schedulingState, di, queue, qi, result, fault, storeAtStart,
                   publishCount, other, failCount, unchangedSinceRun>>

\* the caller has the result (or the fault); the run's locals are gone
Return ==
    /\ pc \in {"done", "raised"}
    /\ pc' = "idle"
    /\ unchangedSinceRun' = (pc = "done")
    /\ availableVideos' = <<>>
    /\ schedulingState' = <<>>
    /\ di' = 0
    /\ queue' = <<>>
    /\ qi' = 0
    /\ result' = EmptyResult
    /\ fault' = "none"
    /\ storeAtStart' = <<>>
    /\ lastOp' = "none"
    /\ readdir' = "none"
    /\ UNCHANGED <<backend, config, now, files, videos, publishCount,
                   other, failCount>>

Next ==
    \/ Tick
    \/ \E f \in Filenames, h \in Hashes : PutFile(f, h)
    \/ \E f \in Filenames : RemoveFile(f)
    \/ RunStart
    \/ RunStartThrows
    \/ DiscoverSkip
    \/ DiscoverEnrichmentThrows
    \/ DiscoverSchedule
    \/ SelectQueue
    \/ MarkProcessing
    \/ ProcessFileNotFound
    \/ ProcessCollaboratorThrows
    \/ \E responseId \in {NULL, NextVideoId} : ProcessUpload(responseId)
    \/ RefreshAnalytics
    \/ Return

Spec == Init /\ [][Next]_vars

\* ------------------------------------------------- two calls in flight
\* POST /api/agent awaits runAgent() with no lock: a second request can be
\* served while the first is suspended at an await. The running call's locals
\* are the run variables; the suspended call's locals are kept in other. The
\* event loop resumes the other call: the two sets of locals change places.
Switch ==
    /\ ~(pc = "idle" /\ other.pc = "idle")
    /\ other' = [pc |-> pc, readdir |-> readdir,
                 availableVideos |-> availableVideos,
                 schedulingState |-> schedulingState, di |-> di,
                 queue |-> queue, qi |-> qi, result |-> result,
                 fault |-> fault, storeAtStart |-> storeAtStart]
    /\ pc' = other.pc
    /\ readdir' = other.readdir
    /\ availableVideos' = other.availableVideos
    /\ schedulingState' = other.schedulingState
    /\ di' = other.di
    /\ queue' = other.queue
    /\ qi' = other.qi
    /\ result' = other.result
    /\ fault' = other.fault
    /\ storeAtStart' = other.storeAtStart
    /\ UNCHANGED <<backend, config, now, files, videos, publishCount, lastOp,
                   failCount, unchangedSinceRun>>

\* two requests, one content file, the default kind of window list, a
\* readable directory and collaborator calls that succeed
ConcurrentInit ==
    /\ Init
    /\ config.uploadWindows = <<0, 1, 2>>

ConcurrentNext ==
    \/ Tick
    \/ PutFile(1, 1)
    \/ RunStart
    \/ DiscoverSkip
    \/ DiscoverSchedule
    \/ SelectQueue
    \/ MarkProcessing
    \/ ProcessUpload(NextVideoId)
    \/ RefreshAnalytics
    \/ Return
    \/ Switch

ConcurrentSpec == ConcurrentInit /\ [][ConcurrentNext]_vars

\* ------------------------------------------- copies of one content file
\* up to MaxCopies files with the same content, collaborator calls that
\* succeed and a readable directory
CopyNames == 1..MaxCopies

CopiesInit ==
    /\ backend \in {"file", "sql"}
    /\ config \in {c \in Configs : c.maxDailyUploads > 1}
    /\ now = 0
    /\ files = [f \in CopyNames |-> NULL]
    /\ videos = <<>>
    /\ pc = "idle"
    /\ readdir = "none"
    /\ availableVideos = <<>>
    /\ schedulingState = <<>>
    /\ di = 0
    /\ queue = <<>>
    /\ qi = 0
    /\ result = EmptyResult
    /\ fault = "none"
    /\ storeAtStart = <<>>
    /\ publishCount = [f \in CopyNames |-> 0]
    /\ lastOp = "none"
    /\ failCount = [f \in CopyNames |-> 0]
    /\ unchangedSinceRun = FALSE
    /\ other = IdleRun

CopiesNext ==
    \/ Tick
    \/ \E f \in CopyNames : PutFile(f, 1)
    \/ RunStart
    \/ DiscoverSkip
    \/ DiscoverSchedule
    \/ SelectQueue
    \/ MarkProcessing
    \/ ProcessUpload(NextVideoId)
    \/ RefreshAnalytics
    \/ Return

CopiesSpec == CopiesInit /\ [][CopiesNext]_vars

\* ------------------------------------------- configuration changes
\* getConfig() parses the environment once per process (cachedConfig): a
\* change of TIMEZONE, UPLOAD_WINDOWS or MAX_DAILY_UPLOADS takes effect when
\* the process is restarted, between two runs. The store outlives the process.
RestartConfigs ==
    {[timezone |-> ZoneOffsetMinutes, uploadWindows |-> <<>>, maxDailyUploads |-> 1],
     [timezone |-> ZoneOffsetMinutes, uploadWindows |-> <<0, 1, 2>>, maxDailyUploads |-> 1],
     [timezone |-> 0, uploadWindows |-> <<0, 1, 2>>, maxDailyUploads |-> 1],
     [timezone |-> ZoneOffsetMinutes, uploadWindows |-> <<0, 1, 2>>, maxDailyUploads |-> 0]}

ChangeConfig(cfg) ==
    /\ pc = "idle"
    /\ cfg # config
    /\ config' = cfg
    /\ UNCHANGED <<backend, now, files, videos, runVars, publishCount, lastOp,
                   other, failCount, unchangedSinceRun>>

ReconfigInit ==
    /\ Init
    /\ config \in RestartConfigs

ReconfigNext ==
    \/ Tick
    \/ \E f \in Filenames, h \in Hashes : PutFile(f, h)
    \/ RunStart
    \/ DiscoverSkip
    \/ DiscoverSchedule
    \/ SelectQueue
    \/ MarkProcessing
    \/ ProcessUpload(NextVideoId)
    \/ RefreshAnalytics
    \/ Return
    \/ \E cfg \in RestartConfigs : ChangeConfig(cfg)

ReconfigSpec == ReconfigInit /\ [][ReconfigNext]_vars

\* ------------------------------------------------- a store with a history
\* the store after one run over SchedulingListLimit + 1 files under the
\* daily cap of one, the files taken away since: the first HorizonDays
\* records hold the first window of the days 1..HorizonDays, the records
\* after them found no slot and are new
StockedConfig ==
    [timezone |-> ZoneOffsetMinutes, uploadWindows |-> <<0, 1, 2>>, maxDailyUploads |-> 1]

StockedRecord(i) ==
    [id             |-> i,
     filename       |-> MaxFiles + i,
     status         |-> IF i <= HorizonDays THEN "scheduled" ELSE "new",
     fileHash       |-> MaxHashes + i,
     scheduledAt    |-> IF i <= HorizonDays
                        THEN Candidate(0, StockedConfig, i, 0) ELSE NULL,
     uploadedAt     |-> NULL,
     youtubeVideoId |-> NULL,
     metadata       |-> Payload,
     analytics      |-> NULL,
     error          |-> NoError,
     retryCount     |-> 0]

StockedInit ==
    /\ backend \in {"file", "sql"}
    /\ config = StockedConfig
    /\ now = 0
    /\ files = [f \in 1..(MaxFiles + SchedulingListLimit + 1) |-> NULL]
    /\ videos = [i \in 1..(SchedulingListLimit + 1) |-> StockedRecord(i)]
    /\ pc = "idle"
    /\ readdir = "none"
    /\ availableVideos = <<>>
    /\ schedulingState = <<>>
    /\ di = 0
    /\ queue = <<>>
    /\ qi = 0
    /\ result = EmptyResult
    /\ fault = "none"
    /\ storeAtStart = <<>>
    /\ publishCount = [f \in DOMAIN files |-> 0]
    /\ lastOp = "none"
    /\ failCount = [f \in DOMAIN files |-> 0]
    /\ unchangedSinceRun = FALSE
    /\ other = IdleRun

StockedNext ==
    \/ Tick
    \/ \E f \in Filenames : PutFile(f, f)
    \/ RunStart
    \/ DiscoverSkip
    \/ DiscoverSchedule
    \/ SelectQueue
    \/ MarkProcessing
    \/ ProcessFileNotFound
    \/ ProcessUpload(NextVideoId)
    \/ RefreshAnalytics
    \/ Return

StockedSpec == StockedInit /\ [][StockedNext]_vars

\* ------------------------------------------------------------- properties
StatusOf(vs, filename) ==
    LET index == IndexOfFilename(vs, filename)
    IN IF index > 0 THEN vs[index].status ELSE "none"

Scheduled(vs) == {i \in 1..Len(vs) : vs[i].scheduledAt # NULL}

\* C1: for every calendar day, the number of items whose scheduledAt falls on
\* that day (past slots included) is at most maxDailyUploads.
CapRespected ==
    \A i \in Scheduled(videos) :
        Cardinality({j \in Scheduled(videos) :
                        DayKey(videos[j].scheduledAt, config) =
                        DayKey(videos[i].scheduledAt, config)})
            <= config.maxDailyUploads

PublishedHashUnique ==
    \A i, j \in 1..Len(videos) :
        (/\ i # j
         /\ videos[i].fileHash # NULL
         /\ videos[i].fileHash = videos[j].fileHash
         /\ videos[i].youtubeVideoId # NULL)
        => videos[j].youtubeVideoId = NULL

\* C4: once an item has status uploaded, no step of any later run changes its
\* status, youtubeVideoId or uploadedAt.
UploadedIsTerminal ==
    [][\A i \in 1..Len(videos) :
          videos[i].status = "uploaded" =>
              /\ Len(videos') >= i
              /\ videos'[i].filename = videos[i].filename
              /\ videos'[i].status = "uploaded"
              /\ videos'[i].youtubeVideoId = videos[i].youtubeVideoId
              /\ videos'[i].uploadedAt = videos[i].uploadedAt]_vars

\* C4 witness: a run has ended that found, in the directory, the file of an
\* item that was already uploaded when the run started, with changed content
RunOverChangedUploadedFile ==
    /\ pc = "done"
    /\ \E i \in 1..Len(storeAtStart), k \in 1..Len(availableVideos) :
          /\ storeAtStart[i].status = "uploaded"
          /\ availableVideos[k].filename = storeAtStart[i].filename
          /\ availableVideos[k].hash # storeAtStart[i].fileHash

\* C5: retryCount never decreases and is never reset; the only store operation
\* that changes it is recordVideoError, which adds exactly 1.
RetryCountMonotone ==
    [][\A i \in 1..Len(videos) :
          /\ Len(videos') >= i
          /\ \/ videos'[i].retryCount = videos[i].retryCount
             \/ /\ videos'[i].retryCount = videos[i].retryCount + 1
                /\ lastOp' = "recordVideoError"]_vars

\* C5 witness: upsertVideoRecord has just rescheduled an item that had failed
\* (and markVideoAsUploaded, storeAnalytics have acted on another such item)
UpsertAfterFailure ==
    /\ lastOp = "upsertVideoRecord"
    /\ \E i \in 1..Len(videos) :
          /\ videos[i].retryCount >= 1
          /\ videos[i].status = "scheduled"
          /\ Len(storeAtStart) >= i
          /\ storeAtStart[i].status = "failed"

\* C6: an item with status uploaded has a non-null youtubeVideoId and a
\* non-null uploadedAt.
UploadedHasIdAndTime ==
    \A i \in 1..Len(videos) :
        videos[i].status = "uploaded" =>
            /\ videos[i].youtubeVideoId # NULL
            /\ videos[i].uploadedAt # NULL

\* C6 witness: an item has been marked uploaded
SomeItemUploaded ==
    /\ lastOp = "markVideoAsUploaded"
    /\ \E i \in 1..Len(videos) : videos[i].status = "uploaded"

\* C7: a failure while processing one ready item does not stop the queue loop:
\* runAgent does not raise from the loop, every earlier record of the queue has
\* been driven to uploaded or failed, and at the return every record has.
ItemFailureIsolated ==
    /\ pc = "raised" => fault \in {"listVideoFiles", "enrichment"}
    /\ pc \in {"process", "upload", "done"} =>
          \A k \in 1..Len(queue) :
              (k < qi \/ pc = "done") =>
                  StatusOf(videos, queue[k].filename) \in {"uploaded", "failed"}
    /\ pc = "done" => qi = Len(queue) + 1

\* C7 witness: a run has returned whose first ready item failed and whose
\* second ready item was uploaded
LaterItemUploadedAfterFailure ==
    /\ pc = "done"
    /\ Len(queue) >= 2
    /\ StatusOf(videos, queue[1].filename) = "failed"
    /\ result.errors # <<>>
    /\ result.errors[1][1] = queue[1].filename
    /\ StatusOf(videos, queue[2].filename) = "uploaded"

\* C8: a failure of an enrichment call during discovery does not make runAgent
\* raise (it is recorded on the item and the run goes on).
EnrichmentFailureCaught ==
    ~(pc = "raised" /\ fault = "enrichment")

\* C9: when listVideoFiles fails, runAgent raises and the store is left exactly
\* as it was before the run.
ListingFaultLeavesStore ==
    readdir = "error" =>
        /\ pc = "raised"
        /\ fault = "listVideoFiles"
        /\ videos = storeAtStart

\* C9 witness: runAgent has raised on a listing fault while the store held an
\* item that was ready to upload
ListingFaultWithReadyItem ==
    /\ pc = "raised"
    /\ readdir = "error"
    /\ \E i \in 1..Len(videos) : IsReady(videos[i], now)

\* C10: an item that was failed when a run started is in the ready queue that
\* run selects, whether or not its file is present.
FailedItemInNextQueue ==
    pc \in {"process", "upload", "done"} =>
        \A i \in 1..Len(storeAtStart) :
            storeAtStart[i].status = "failed" =>
                \E k \in 1..Len(queue) :
                    queue[k].filename = storeAtStart[i].filename


\* C11: every status change made by a step of a run is one of new -> scheduled,
\* scheduled -> processing, failed -> processing, processing -> uploaded,
\* processing -> failed, and a record is created as new or scheduled.
OnlyAllowedTransitions ==
    [][LET AllowedNext(status) ==
               CASE status = "new"        -> {"scheduled"}
                 [] status = "scheduled"  -> {"processing"}
                 [] status = "failed"     -> {"processing"}
                 [] status = "processing" -> {"uploaded", "failed"}
                 [] status = "uploaded"   -> {}
       IN /\ \A i \in 1..Len(videos) :
                /\ Len(videos') >= i
                /\ \/ videos'[i].status = videos[i].status
                   \/ videos'[i].status \in AllowedNext(videos[i].status)
          /\ \A i \in (Len(videos) + 1)..Len(videos') :
                videos'[i].status \in {"new", "scheduled"}]_vars

\* C12: an item whose processing failed k times has retryCount exactly k,
\* before and after a success, and an uploaded item has a null error.
RetryCountIsFailureCount ==
    \A i \in 1..Len(videos) :
        /\ videos[i].retryCount = failCount[videos[i].filename]
        /\ videos[i].status = "uploaded" => videos[i].error = NoError

\* C12 witness: an item was uploaded after its processing had failed twice
UploadedAfterTwoFailures ==
    \E i \in 1..Len(videos) :
        /\ videos[i].status = "uploaded"
        /\ failCount[videos[i].filename] = 2


\* the items that hold a slot assigned by the run in progress
ScheduledThisRun ==
    {i \in Scheduled(videos) :
        \/ i > Len(storeAtStart)
        \/ storeAtStart[i].scheduledAt # videos[i].scheduledAt}

\* C13: no two items scheduled in one run hold the same scheduledAt, and the
\* items scheduled in one run onto a calendar day, together with the
\* future-dated items already on that day, are at most maxDailyUploads.
SameRunSlotsSeen ==
    pc \in {"discover", "process", "upload", "done"} =>
        \A i \in ScheduledThisRun :
            /\ \A j \in ScheduledThisRun :
                  i # j => videos[i].scheduledAt # videos[j].scheduledAt
            /\ Cardinality({j \in Scheduled(videos) :
                    /\ j \in ScheduledThisRun \/ videos[j].scheduledAt > now
                    /\ DayKey(videos[j].scheduledAt, config) =
                       DayKey(videos[i].scheduledAt, config)})
                  <= config.maxDailyUploads


\* the (day offset, window index) pairs whose candidate passes the cap,
\* lead-time and collision checks
ValidPairs(vs, t, cfg) ==
    LET futureVideos == FutureVideos(vs, t)
    IN {p \in (0..HorizonDays) \X (1..Len(cfg.uploadWindows)) :
           LET candidate == Candidate(t, cfg, p[1], cfg.uploadWindows[p[2]])
           IN /\ ~DayFull(futureVideos, DayKey(t, cfg) + p[1], cfg)
              /\ ~TooSoon(t, p[1], candidate)
              /\ ~SlotTaken(futureVideos, candidate)}

CandidateAt(t, cfg, p) == Candidate(t, cfg, p[1], cfg.uploadWindows[p[2]])

\* the slot request the discovery loop is about to make
AtSlotRequest == pc = "discover" /\ di <= Len(availableVideos)

\* C14 (as claimed): computeNextSchedule returns the earliest timestamp among
\* all valid candidates, for every window list.
ReturnsEarliestValid ==
    AtSlotRequest =>
        LET valid == ValidPairs(schedulingState, now, config)
            next == computeNextSchedule(schedulingState, now, config)
        IN IF valid = {} THEN next = NULL
           ELSE \A q \in valid : next <= CandidateAt(now, config, q)

\* C14 (amended): computeNextSchedule returns the first valid candidate in
\* day-then-configured-window order (null if there is none); when the window
\* list is in ascending order this is the earliest valid candidate.
ReturnsFirstValidInOrder ==
    AtSlotRequest =>
        LET valid == ValidPairs(schedulingState, now, config)
            next == computeNextSchedule(schedulingState, now, config)
            windows == config.uploadWindows
            ascending == \A a, b \in 1..Len(windows) :
                            a < b => windows[a] <= windows[b]
        IN IF valid = {} THEN next = NULL
           ELSE /\ \E p \in valid :
                      /\ next = CandidateAt(now, config, p)
                      /\ \A q \in valid :
                            p[1] < q[1] \/ (p[1] = q[1] /\ p[2] <= q[2])
                /\ ascending =>
                      \A q \in valid : next <= CandidateAt(now, config, q)

\* C14 witness: a slot request with an ascending window list whose first
\* candidates are rejected, some by the collision check
FirstCandidatesRejected ==
    /\ AtSlotRequest
    /\ config.uploadWindows = <<0, 1, 2>>
    /\ computeNextSchedule(schedulingState, now, config) # NULL
    /\ \E d \in 0..HorizonDays, w \in 1..3 :
          /\ <<d, w>> \notin ValidPairs(schedulingState, now, config)
          /\ SlotTaken(FutureVideos(schedulingState, now),
                       CandidateAt(now, config, <<d, w>>))
          /\ \E q \in ValidPairs(schedulingState, now, config) :
                d < q[1] \/ (d = q[1] /\ w < q[2])


\* the run in progress follows a run that returned, and no file was written
\* or removed in between
SecondRunOverSameFiles ==
    unchangedSinceRun /\ pc \in {"discover", "process", "upload", "done"}

\* every listed file has a record that held a slot when the run started
EveryFileHadSlot ==
    \A k \in 1..Len(availableVideos) :
        \E i \in 1..Len(storeAtStart) :
            /\ storeAtStart[i].filename = availableVideos[k].filename
            /\ storeAtStart[i].status = "scheduled"

\* C15: a second run over an unchanged file set creates no record, leaves
\* every scheduled item whose slot has not arrived with the same scheduledAt,
\* status and metadata, and reports scheduled = 0 when every file had a slot.
SecondRunIdempotent ==
    SecondRunOverSameFiles =>
        /\ Len(videos) = Len(storeAtStart)
        /\ \A i \in 1..Len(storeAtStart) :
              (/\ storeAtStart[i].status = "scheduled"
               /\ storeAtStart[i].scheduledAt > now)
              => /\ videos[i].status = "scheduled"
                 /\ videos[i].scheduledAt = storeAtStart[i].scheduledAt
                 /\ videos[i].metadata = storeAtStart[i].metadata
        /\ EveryFileHadSlot => result.scheduled = 0


\* C16: upsertVideoRecord on an existing filename keeps the stored value of a
\* field whose incoming value is null, in both backends. The discovery loop
\* passes no error, and a null scheduledAt when no slot was found: while it
\* runs, every record of the store keeps the error it had when the run
\* started, and a record that had a slot still has one.
UpsertKeepsStoredOnNull ==
    pc = "discover" =>
        \A i \in 1..Len(storeAtStart) :
            /\ videos[i].error = storeAtStart[i].error
            /\ storeAtStart[i].scheduledAt # NULL => videos[i].scheduledAt # NULL


\* C17: the two backends are interchangeable. At every point of a run where
\* the next step calls the store, the call gives the same outcome whichever
\* backend holds the current records: the by-hash lookup leads to the same
\* skip decision, the upsert leaves the same status, scheduledAt, error,
\* retryCount and youtubeVideoId, and listReadyToUpload returns the same
\* sequence. (All steps before the first difference are then the same in
\* both backends, so the state of the first difference is reached by both.)
BackendsInterchangeable ==
    /\ (pc = "discover" /\ di <= Len(availableVideos)) =>
          LET video == availableVideos[di]
              record == DiscoveredRecord(video,
                            computeNextSchedule(schedulingState, now, config))
              byFile == upsertVideoRecord("file", videos, record, now)
              bySql == upsertVideoRecord("sql", videos, record, now)
          IN /\ \A h1 \in getVideoByHash("file", videos, video.hash) :
                   \A h2 \in getVideoByHash("sql", videos, video.hash) :
                      Skipped(videos, video, h1) = Skipped(videos, video, h2)
             /\ (\E h \in getVideoByHash(backend, videos, video.hash) :
                    ~Skipped(videos, video, h))
                => \A i \in 1..Len(byFile) :
                      /\ byFile[i].status = bySql[i].status
                      /\ byFile[i].scheduledAt = bySql[i].scheduledAt
                      /\ byFile[i].error = bySql[i].error
                      /\ byFile[i].retryCount = bySql[i].retryCount
                      /\ byFile[i].youtubeVideoId = bySql[i].youtubeVideoId
    /\ (pc = "discover" /\ di > Len(availableVideos)) =>
          listReadyToUpload("file", videos, now) = listReadyToUpload("sql", videos, now)


\* C18: the ready queue a run processes is ordered by scheduledAt ascending,
\* null scheduledAt first, in both backends
QueueOrderedByScheduledAt ==
    pc \in {"process", "upload"} =>
        \A i \in 1..Len(queue), j \in 1..Len(queue) :
            i < j => \/ queue[i].scheduledAt = NULL
                     \/ /\ queue[j].scheduledAt # NULL
                        /\ queue[i].scheduledAt <= queue[j].scheduledAt


\* C19: with two runAgent calls in flight, no record is uploaded by both: a
\* filename that one call's queue loop has passed (its uploadShort call was
\* made) is not one the other call's queue loop has passed
UploadShortByOneRun ==
    (/\ pc \in {"process", "upload"}
     /\ other.pc \in {"process", "upload"})
    => \A k \in 1..(qi - 1), m \in 1..(other.qi - 1) :
          queue[k].filename # other.queue[m].filename


\* C20: while the discovery loop runs, the summary's scheduled is the number
\* of records this run put into scheduled status with a slot (a record left
\* new for want of a slot is not counted), and scanned is the number of
\* files the listing found
SummaryCountsScheduled ==
    pc = "discover" =>
        /\ result.scheduled =
              Cardinality({i \in 1..Len(videos) :
                  /\ videos[i].status = "scheduled"
                  /\ videos[i].scheduledAt # NULL
                  /\ (i > Len(storeAtStart) \/ storeAtStart[i].status # "scheduled")})
        /\ result.scanned = Len(availableVideos)


\* C21: an item in scheduled status keeps its scheduledAt through every step
\* of every later run until it is taken for processing, also when the
\* timezone, the upload windows or maxDailyUploads were changed between runs.
ScheduledAtKept ==
    [][\A i \in 1..Len(videos) :
          videos[i].status = "scheduled"
          => /\ i <= Len(videos')
             /\ videos'[i].status \in {"scheduled", "processing"}
             /\ videos'[i].status = "scheduled"
                => videos'[i].scheduledAt = videos[i].scheduledAt]_vars

\* C21 witness: a run under an empty window list has passed discovery over a
\* listed file whose item was scheduled under an earlier configuration and
\* is still waiting for its slot
ScheduledItemSurvivedReconfig ==
    /\ pc = "process"
    /\ config.uploadWindows = <<>>
    /\ \E i \in 1..Len(videos), k \in 1..Len(availableVideos) :
          /\ availableVideos[k].filename = videos[i].filename
          /\ videos[i].status = "scheduled"
          /\ videos[i].scheduledAt > now


\* C22: no step removes a record or changes a record's filename or id, no
\* two records have the same filename, and a failed item that is retried or
\* rescheduled is the same record with the same retryCount.
RecordsCreatedOnce ==
    [][/\ Len(videos') >= Len(videos)
       /\ \A i \in 1..Len(videos) :
             /\ videos'[i].filename = videos[i].filename
             /\ videos'[i].id = videos[i].id
             /\ (videos[i].status = "failed" /\ videos'[i].status # "failed")
                => videos'[i].retryCount = videos[i].retryCount
       /\ \A i, j \in 1..Len(videos') :
             videos'[i].filename = videos'[j].filename => i = j]_vars

\* C22 witness: the discovery loop has rescheduled an item that was failed
\* when the run started
FailedItemRescheduledInPlace ==
    /\ pc = "discover"
    /\ \E i \in 1..Len(storeAtStart) :
          /\ storeAtStart[i].status = "failed"
          /\ videos[i].status = "scheduled"
          /\ videos[i].retryCount >= 1


\* C23: while the window list is empty, computeNextSchedule returns null at
\* every slot request, every record created is created in status new, a new
\* record stays new, and no new record is in the ready queue.
EmptyWindowsKeepNew ==
    [][(config.uploadWindows = <<>> /\ config' = config)
       => /\ AtSlotRequest
             => computeNextSchedule(schedulingState, now, config) = NULL
          /\ \A i \in 1..Len(videos') :
                /\ i > Len(videos) => videos'[i].status = "new"
                /\ (i <= Len(videos) /\ videos[i].status = "new")
                   => /\ videos'[i].status = "new"
                      /\ videos'[i].scheduledAt = NULL
          /\ \A k \in 1..Len(queue') : queue'[k].status # "new"]_vars

\* C23 witness: under an empty window list, a run that follows a returned run
\* over the same files has returned and a listed file's item, new when the
\* run started, is still new
StillNewAfterSecondRun ==
    /\ config.uploadWindows = <<>>
    /\ unchangedSinceRun
    /\ pc = "done"
    /\ \E i \in 1..Len(storeAtStart), k \in 1..Len(availableVideos) :
          /\ availableVideos[k].filename = videos[i].filename
          /\ storeAtStart[i].status = "new"
          /\ videos[i].status = "new"


\* C24: with maxDailyUploads <= 0 every slot request returns null, whatever
\* the list of existing items, the time and the (non-empty) window list.
NoSlotWithoutDailyCap ==
    (AtSlotRequest /\ config.maxDailyUploads <= 0)
    => computeNextSchedule(schedulingState, now, config) = NULL

\* C24 witness: a slot request under maxDailyUploads = 0 and a non-empty
\* window list, with a future-dated item in the list
SlotRequestWithZeroCap ==
    /\ AtSlotRequest
    /\ config.maxDailyUploads <= 0
    /\ config.uploadWindows # <<>>
    /\ FutureVideos(schedulingState, now) # <<>>
    /\ \E byHash \in getVideoByHash(backend, videos, availableVideos[di].hash) :
          ~Skipped(videos, availableVideos[di], byHash)


MissingDirectoryIsNoCandidates ==
    [][readdir' = "ENOENT"
       => /\ pc' # "raised"
          /\ result'.scanned = 0
          /\ result'.scheduled = 0
          /\ (pc = "discover" /\ pc' = "process")
             => queue' = listReadyToUpload(backend, storeAtStart, now)
          /\ pc' = "done"
             => result'.uploaded + result'.failed = Len(queue')]_vars

\* C26 witness: a run that found no directory has returned after handling a
\* ready item
MissingDirectoryRunHandledQueue ==
    /\ readdir = "ENOENT"
    /\ pc = "done"
    /\ Len(queue) >= 1


\* C28: on day offset 0 the lead-time check passes a window candidate exactly
\* when the candidate is at least one minute after now (a candidate exactly
\* one minute after now passes).
LeadTimeAtLeastOneMinute ==
    AtSlotRequest =>
        \A p \in 1..Len(config.uploadWindows) :
            LET candidate == Candidate(now, config, 0, config.uploadWindows[p])
            IN ~TooSoon(now, 0, candidate) <=> candidate >= now + TicksPerMinute


\* C29: a slot returned by computeNextSchedule lies on a calendar day at most
\* HorizonDays after today, and null is returned exactly when no window
\* candidate of those days passes the cap, lead-time and collision checks.
SlotWithinHorizon ==
    AtSlotRequest =>
        LET slot == computeNextSchedule(schedulingState, now, config)
        IN /\ slot # NULL
              => /\ DayKey(slot, config) >= DayKey(now, config)
                 /\ DayKey(slot, config) <= DayKey(now, config) + HorizonDays
           /\ slot = NULL <=> ValidPairs(schedulingState, now, config) = {}

\* C29 witness: a slot request under a daily cap of one that is answered
\* with null because every day of the horizon is taken, the day after the
\* horizon being free
HorizonExhausted ==
    /\ AtSlotRequest
    /\ \E byHash \in getVideoByHash(backend, videos, availableVideos[di].hash) :
          ~Skipped(videos, availableVideos[di], byHash)
    /\ config.maxDailyUploads >= 1
    /\ config.uploadWindows # <<>>
    /\ computeNextSchedule(schedulingState, now, config) = NULL
    /\ ~DayFull(FutureVideos(schedulingState, now),
                DayKey(now, config) + HorizonDays + 1, config)


\* C30: at every slot request of the discovery loop, every stored item with
\* a scheduledAt in the future is in the list given to the scheduler, with
\* that scheduledAt, however many items the store holds.
SchedulerSeesEveryFutureItem ==
    AtSlotRequest =>
        \A i \in 1..Len(videos) :
            (videos[i].scheduledAt # NULL /\ videos[i].scheduledAt > now)
            => \E k \in 1..Len(schedulingState) :
                  /\ schedulingState[k].filename = videos[i].filename
                  /\ schedulingState[k].scheduledAt = videos[i].scheduledAt


\* C31: a pass of the discovery loop over a file whose hash is the fileHash of
\* some stored item with a youtubeVideoId changes no record and asks for no
\* slot, whatever the file's name and whatever other items have that hash.
PublishedContentSkipped ==
    [][(/\ pc = "discover"
        /\ di <= Len(availableVideos)
        /\ di' = di + 1
        /\ \E j \in 1..Len(videos) :
              /\ videos[j].fileHash = availableVideos[di].hash
              /\ videos[j].youtubeVideoId # NULL)
       => /\ videos' = videos
          /\ schedulingState' = schedulingState]_vars


\* C32: the queue a run selects holds current records in status scheduled or
\* failed whose scheduledAt is null or not later than the time of selection,
\* and a record is marked processing only as the next record of that queue,
\* with the status and scheduledAt it had at selection.
OnlyReadyItemsProcessed ==
    [][/\ (pc = "discover" /\ pc' = "process")
          => \A k \in 1..Len(queue') :
                /\ queue'[k].status \in {"scheduled", "failed"}
                /\ queue'[k].scheduledAt = NULL \/ queue'[k].scheduledAt <= now
                /\ \E i \in 1..Len(videos) : videos[i] = queue'[k]
       /\ \A i \in 1..Len(videos) :
             (videos'[i].status = "processing" /\ videos[i].status # "processing")
             => /\ pc = "process"
                /\ qi <= Len(queue)
                /\ queue[qi].filename = videos[i].filename
                /\ queue[qi].status = videos[i].status
                /\ queue[qi].scheduledAt = videos[i].scheduledAt]_vars

\* C32 witness: a record is being processed while an item that the discovery
\* phase of the same run scheduled still waits for its slot
ProcessingWhileNewSlotWaits ==
    /\ pc = "upload"
    /\ \E i \in 1..Len(videos) :
          /\ i > Len(storeAtStart)
          /\ videos[i].status = "scheduled"
          /\ videos[i].scheduledAt > now
          /\ \A k \in 1..Len(queue) : queue[k].filename # videos[i].filename


\* C33: at most one item is in status processing, and it is the record the
\* queue loop is working on: every ready item reaches uploaded or failed
\* before the next one is marked processing.
OneItemProcessing ==
    \A i \in 1..Len(videos) :
        videos[i].status = "processing"
        => /\ pc = "upload"
           /\ queue[qi].filename = videos[i].filename
           /\ \A j \in 1..Len(videos) : videos[j].status = "processing" => j = i

\* C33 witness: the second record of a queue is being processed after the
\* first one failed
SecondItemProcessing ==
    /\ pc = "upload"
    /\ qi = 2
    /\ StatusOf(videos, queue[1].filename) = "failed"
    /\ StatusOf(videos, queue[2].filename) = "processing"


\* C34: with one run at a time, the upload call returns a video id at most
\* once for each item, over any sequence of runs.
PublishedAtMostOnce ==
    \A f \in DOMAIN publishCount : publishCount[f] <= 1

\* C34 witness: a run over a listed file whose item was uploaded by an
\* earlier run has returned
RunAfterPublishReturned ==
    /\ pc = "done"
    /\ \E i \in 1..Len(storeAtStart), k \in 1..Len(availableVideos) :
          /\ availableVideos[k].filename = storeAtStart[i].filename
          /\ storeAtStart[i].status = "uploaded"
          /\ publishCount[storeAtStart[i].filename] = 1


\* C35: when a run returns, uploaded + failed is the length of the queue it
\* selected, errors holds one entry for each failed item of the queue (with
\* its filename) and no other, and no item of the queue is in processing.
SummaryAccountsForQueue ==
    pc = "done" =>
        /\ result.uploaded + result.failed = Len(queue)
        /\ Len(result.errors) = result.failed
        /\ \A k \in 1..Len(queue) :
              /\ StatusOf(videos, queue[k].filename) \in {"uploaded", "failed"}
              /\ Cardinality({e \in 1..Len(result.errors) :
                                  result.errors[e][1] = queue[k].filename})
                 = IF StatusOf(videos, queue[k].filename) = "failed" THEN 1 ELSE 0

\* C35 witness: a run has returned after one item of its queue was uploaded
\* and another failed
RunReturnedMixedOutcome ==
    /\ pc = "done"
    /\ result.uploaded >= 1
    /\ result.failed >= 1


\* C36: an item in status scheduled has a scheduledAt, and a scheduledAt that
\* a step assigns is later than the current time and falls, in the configured
\* zone, on the minute of one of the configured windows.
ScheduledHasValidSlot ==
    [][\A i \in 1..Len(videos') :
          /\ videos'[i].status = "scheduled" => videos'[i].scheduledAt # NULL
          /\ (/\ videos'[i].scheduledAt # NULL
              /\ i <= Len(videos) => videos[i].scheduledAt # videos'[i].scheduledAt)
             => /\ videos'[i].scheduledAt > now
                /\ \E p \in 1..Len(config.uploadWindows) :
                      (videos'[i].scheduledAt + config.timezone * TicksPerMinute)
                          % (DayMinutes * TicksPerMinute)
                      = config.uploadWindows[p] * TicksPerMinute]_vars

\* C36 witness: the discovery loop has just given an item a slot later on the
\* current day
SlotAssignedToday ==
    /\ pc = "discover"
    /\ lastOp = "upsertVideoRecord"
    /\ \E i \in ScheduledThisRun :
          /\ videos[i].status = "scheduled"
          /\ videos[i].scheduledAt > now
          /\ DayKey(videos[i].scheduledAt, config) = DayKey(now, config)


\* C37: an item in status failed has an error and a retryCount of at least
\* one, and an item in status uploaded has no error.
StatusMatchesError ==
    \A i \in 1..Len(videos) :
        /\ videos[i].status = "failed"
           => /\ videos[i].error # NoError
              /\ videos[i].retryCount >= 1
        /\ videos[i].status = "uploaded" => videos[i].error = NoError

\* C37 witness: an item that was failed, with its error, when the run
\* started has been uploaded by the run
FailedItemRecovered ==
    \E i \in 1..Len(storeAtStart) :
        /\ storeAtStart[i].status = "failed"
        /\ storeAtStart[i].error # NoError
        /\ videos[i].status = "uploaded"
        /\ videos[i].retryCount >= 1


\* ------------------------------------------------ runs repeated for ever
\* The content directory holds every file from the start and is not touched
\* again, the window list is not empty, MAX_DAILY_UPLOADS >= 1, no
\* collaborator fails, runs follow one another for ever and the clock goes on.
\* The store starts empty, or as earlier runs left it. Hash values are
\* interchangeable, so the first file's content is hash 1.

\* a store earlier runs can leave behind: file 1 published, file 2 discovered
\* when no slot was free (status new)
LeftoverStore(fs) ==
    <<[id             |-> 1,
       filename       |-> 1,
       status         |-> "uploaded",
       fileHash       |-> fs[1],
       scheduledAt    |-> 0,
       uploadedAt     |-> 0,
       youtubeVideoId |-> 1,
       metadata       |-> Payload,
       analytics      |-> NULL,
       error          |-> NoError,
       retryCount     |-> 0],
      [id             |-> 2,
       filename       |-> 2,
       status         |-> "new",
       fileHash       |-> fs[2],
       scheduledAt    |-> NULL,
       uploadedAt     |-> NULL,
       youtubeVideoId |-> NULL,
       metadata       |-> Payload,
       analytics      |-> NULL,
       error          |-> NoError,
       retryCount     |-> 0]>>

RepeatedInit ==
    /\ backend \in {"file", "sql"}
    /\ config \in {c \in Configs : c.uploadWindows # <<>> /\ c.maxDailyUploads >= 1}
    /\ now = 0
    /\ files \in {fs \in [Filenames -> Hashes] : fs[1] = 1}
    /\ videos \in {<<>>, LeftoverStore(files)}
    /\ pc = "idle"
    /\ readdir = "none"
    /\ availableVideos = <<>>
    /\ schedulingState = <<>>
    /\ di = 0
    /\ queue = <<>>
    /\ qi = 0
    /\ result = EmptyResult
    /\ fault = "none"
    /\ storeAtStart = <<>>
    /\ publishCount = [f \in Filenames |-> IF videos # <<>> /\ f = 1 THEN 1 ELSE 0]
    /\ lastOp = "none"
    /\ failCount = [f \in Filenames |-> 0]
    /\ unchangedSinceRun = FALSE
    /\ other = IdleRun

\* a scheduled item waits for a slot that is still ahead
SlotPending ==
    \E i \in 1..Len(videos) :
        videos[i].status = "scheduled" /\ videos[i].scheduledAt > now

\* the clock advances for as long as something waits for it: past MaxClock it
\* is followed only while a slot is pending
AdvanceClock ==
    /\ now < MaxClock \/ SlotPending
    /\ now' = now + 1
    /\ UNCHANGED <<backend, config, files, videos, runVars,
                   publishCount, lastOp, other, failCount, unchangedSinceRun>>

\* the steps of a run in which every collaborator call succeeds
RunSteps ==
    \/ RunStart
    \/ DiscoverSkip
    \/ DiscoverSchedule
    \/ SelectQueue
    \/ MarkProcessing
    \/ ProcessUpload(NextVideoId)
    \/ RefreshAnalytics
    \/ Return

RepeatedNext ==
    \/ AdvanceClock
    \/ RunStart
    \/ DiscoverSkip
    \/ DiscoverSchedule
    \/ SelectQueue
    \/ MarkProcessing
    \/ ProcessUpload(NextVideoId)
    \/ RefreshAnalytics
    \/ Return

\* a started run goes on to its return and the next run is triggered; the
\* clock does not stop while a slot is pending
RepeatedSpec ==
    /\ RepeatedInit
    /\ [][RepeatedNext]_vars
    /\ WF_vars(RunSteps)
    /\ WF_vars(AdvanceClock)

\* the content of file f has been published under another filename
PublishedUnderOtherName(f) ==
    \E i \in 1..Len(videos) :
        /\ videos[i].filename # f
        /\ videos[i].fileHash = files[f]
        /\ videos[i].youtubeVideoId # NULL

====
